---- MODULE Spec2Model ----
(***************************************************************************)
(* URL shortener backend (backend/server.js): the in-memory urlDatabase,   *)
(* the UrlEntry objects it refers to, the persisted urls.json document,    *)
(* the three asynchronous request handlers (POST /api/shorten,             *)
(* GET /:shortId, cleanup job), split at their awaits, and the two         *)
(* synchronous ones (GET /api/stats/:shortId, GET /api/health).            *)
(***************************************************************************)
EXTENDS Integers, Sequences, FiniteSets, TLC

(***************************************************************************)
(* Bounds of the model.                                                    *)
(***************************************************************************)
\* Requests in one behaviour whose handler reaches an await (the requests
\* answered without an await leave no trace and are not counted).
MaxReqs == 2
\* UrlEntry objects constructed in one behaviour.
MaxObjs == 2
\* Last value of the clock (Date.now(), in abstract milliseconds).
MaxTime == 2

\* The same three budgets for the specification of the access statistics ...
AccessReqs == 3
AccessObjs == 2
AccessTime == 1
\* ... and for the specification of the failing file writes.
FaultReqs == 3
FaultObjs == 2
FaultTime == 1
\* ... and for the specification of the restarts.
RestartReqs == 2
RestartObjs == 2
RestartTime == 1
\* ... and for the specification of the cleanup job under fair scheduling.
SweepReqs == 2
SweepObjs == 2
SweepTime == 3
\* ... and for the specification of the browser and referrer statistics.
BrowserReqs == 3
BrowserObjs == 2
BrowserTime == 1
\* ... and for the specification of the counters across restarts.
TallyReqs == 3
TallyObjs == 2
TallyTime == 1

\* Request slots: handlers that may be suspended at an await at the same time.
Procs == {"p1", "p2"}

(***************************************************************************)
(* JavaScript values.  A number-or-null field is a tagged record so that   *)
(* null, NaN and the integers stay distinct.                               *)
(***************************************************************************)
NullV == [t |-> "null", v |-> 0]
NaNV == [t |-> "nan", v |-> 0]
Num(n) == [t |-> "num", v |-> n]

\* JavaScript truthiness of a number-or-null value: null, NaN and 0 are falsy.
Truthy(x) == x.t = "num" /\ x.v # 0

\* a > b on numbers-or-NaN: any comparison with NaN is false.
NumGt(a, b) == a.t = "num" /\ b.t = "num" /\ a.v > b.v

\* a + b on numbers-or-NaN.
NumAdd(a, b) == IF a.t = "num" /\ b.t = "num" THEN Num(a.v + b.v) ELSE NaNV

(***************************************************************************)
(* Request inputs.                                                         *)
(***************************************************************************)
\* A ttl of the request body: absent, a JSON number, or a JSON string.
Undef == [t |-> "undef", n |-> 0, s |-> <<>>]
BodyNum(n) == [t |-> "num", n |-> n, s |-> <<>>]
BodyStr(s) == [t |-> "str", n |-> 0, s |-> s]

TtlInputs == {Undef, BodyNum(1), BodyStr(<<"-", "1">>)}

\* longUrl values of the request body; the last one is no web URI.
UrlA == "https://a.example/page"
UrlB == "https://b.example/page"
UrlBad == "not a url"
UrlInputs == {UrlA, UrlB, UrlBad}

\* customSlug values of the request body; NoSlug is an absent (or empty) slug.
NoSlug == ""
SlugInputs == {NoSlug, "promo", "my slug"}

\* Values crypto.randomBytes(4).toString('hex') returns in the model.
GenIds == {"0000000a", "0000000b"}

\* shortId values of GET requests.
KeyInputs == {"promo", "0000000a", "0000000b"}

\* The characters of the strings a slug check can see.
CharsOf(s) ==
  CASE s = "promo" -> <<"p", "r", "o", "m", "o">>
    [] s = "0000000a" -> <<"0", "0", "0", "0", "0", "0", "0", "a">>
    [] s = "0000000b" -> <<"0", "0", "0", "0", "0", "0", "0", "b">>
    [] s = "12345678" -> <<"1", "2", "3", "4", "5", "6", "7", "8">>
    [] s = "my slug" -> <<"m", "y", " ", "s", "l", "u", "g">>
    [] OTHER -> <<>>

\* Referrer header of a GET request: NoHeader when the header is missing.
NoHeader == ""
ReferrerInputs == {NoHeader, "https://ref.example/"}

\* User-Agent header of a GET request, as its sequence of characters; the
\* empty sequence when the header is missing.
UaChrome == <<"C", "h", "r", "o", "m", "e", " ", "S", "a", "f", "a", "r", "i">>
UaLegacyEdge == UaChrome \o <<" ", "E", "d", "g", "e">>
UaFirefox == <<"G", "e", "c", "k", "o", " ", "F", "i", "r", "e", "f", "o", "x", "/", "1">>
UaSafari == <<"M", "o", "b", "i", "l", "e", "S", "a", "f", "a", "r", "i">>
UaEdge == <<"E", "d", "g", "e", "/", "1", "8">>
UaLowerCase == <<"g", "e", "c", "k", "o", " ", "f", "i", "r", "e", "f", "o", "x">>
UserAgentInputs == {<<>>, UaChrome}
BrowserAgents == {<<>>, UaChrome, UaLegacyEdge, UaFirefox, UaSafari, UaEdge, UaLowerCase}

\* The characters of the names getBrowserFromUserAgent looks for, and of the
\* default of a missing header.
NameChars(name) ==
  CASE name = "Firefox" -> <<"F", "i", "r", "e", "f", "o", "x">>
    [] name = "Chrome" -> <<"C", "h", "r", "o", "m", "e">>
    [] name = "Safari" -> <<"S", "a", "f", "a", "r", "i">>
    [] name = "Edge" -> <<"E", "d", "g", "e">>
    [] name = "Unknown" -> <<"U", "n", "k", "n", "o", "w", "n">>

(***************************************************************************)
(* Helper functions of server.js.                                          *)
(***************************************************************************)
Digits == {"0", "1", "2", "3", "4", "5", "6", "7", "8", "9"}

DigitVal(c) ==
  CASE c = "0" -> 0 [] c = "1" -> 1 [] c = "2" -> 2 [] c = "3" -> 3
    [] c = "4" -> 4 [] c = "5" -> 5 [] c = "6" -> 6 [] c = "7" -> 7
    [] c = "8" -> 8 [] c = "9" -> 9 [] OTHER -> 0

\* Value of the longest prefix of decimal digits of s, read after acc.
RECURSIVE DigitsPrefix(_, _)
DigitsPrefix(s, acc) ==
  IF s = <<>> \/ Head(s) \notin Digits
    THEN acc
    ELSE DigitsPrefix(Tail(s), acc * 10 + DigitVal(Head(s)))

RECURSIVE SkipSpaces(_)
SkipSpaces(s) ==
  IF s # <<>> /\ Head(s) = " " THEN SkipSpaces(Tail(s)) ELSE s

\* parseInt of a string (radix 10): leading blanks, a sign, then digits; NaN
\* when no digit follows.
ParseIntStr(s) ==
  LET t == SkipSpaces(s)
      neg == t # <<>> /\ Head(t) = "-"
      u == IF t # <<>> /\ Head(t) \in {"-", "+"} THEN Tail(t) ELSE t
  IN IF u = <<>> \/ Head(u) \notin Digits
       THEN NaNV
       ELSE Num((IF neg THEN -1 ELSE 1) * DigitsPrefix(u, 0))

\* Truthiness of a body value: undefined, 0 and "" are falsy.
BodyTruthy(x) ==
  \/ x.t = "num" /\ x.n # 0
  \/ x.t = "str" /\ x.s # <<>>

\* The ttl argument of the UrlEntry constructor: ttl ? parseInt(ttl) : null.
ParseTtl(ttl) ==
  IF BodyTruthy(ttl)
    THEN (IF ttl.t = "num" THEN Num(ttl.n) ELSE ParseIntStr(ttl.s))
    ELSE NullV

\* validUrl.isWebUri: the external validator accepts the web URIs.
IsValidUrl(url) == url \in {UrlA, UrlB}

\* Characters of the class [a-zA-Z0-9-_].
SlugChars ==
  { "a", "b", "c", "d", "e", "f", "g", "h", "i", "j", "k", "l", "m", "n",
    "o", "p", "q", "r", "s", "t", "u", "v", "w", "x", "y", "z" }
  \cup Digits \cup {"-", "_"}

\* /^[a-zA-Z0-9-_]+$/.test(slug)
IsValidCustomSlug(slug) ==
  LET cs == CharsOf(slug)
  IN cs # <<>> /\ \A i \in 1..Len(cs) : cs[i] \in SlugChars

\* QRCode.toDataURL of the short link of shortId; null when the encoder fails.
QrOf(shortId) == <<"data:image/png", shortId>>
NoQr == <<>>

\* generateQRCode: the encoder's data URL, or null when it throws.
GenerateQRCode(shortId, encoderOk) == IF encoderOk THEN QrOf(shortId) ELSE NoQr

(***************************************************************************)
(* class UrlEntry.  The Maps referrers and browserStats are functions      *)
(* whose domain is the set of labels seen so far.                          *)
(***************************************************************************)
EmptyMap == [j \in {} |-> 0]

MapGetOr0(m, k) == IF k \in DOMAIN m THEN m[k] ELSE 0

MapPut(m, k, x) == [j \in DOMAIN m \cup {k} |-> IF j = k THEN x ELSE m[j]]

\* new UrlEntry(longUrl, shortId, createdAt, ttl, customSlug)
NewUrlEntry(longUrl, shortId, createdAt, ttl, customSlug) ==
  [ longUrl |-> longUrl,
    shortId |-> IF customSlug # NoSlug THEN customSlug ELSE shortId,
    createdAt |-> createdAt,
    ttl |-> ttl,
    accessCount |-> 0,
    lastAccessed |-> NullV,
    referrers |-> EmptyMap,
    browserStats |-> EmptyMap,
    qrCode |-> NoQr ]

\* UrlEntry.isExpired at time t.
IsExpired(e, t) ==
  IF ~Truthy(e.ttl) THEN FALSE ELSE NumGt(Num(t), NumAdd(Num(e.createdAt), e.ttl))

\* userAgent.includes(name): name occurs in userAgent, character by character.
Includes(userAgent, name) ==
  LET n == NameChars(name)
  IN \E i \in 1..(Len(userAgent) - Len(n) + 1) :
       SubSeq(userAgent, i, i + Len(n) - 1) = n

\* A faulty getBrowserFromUserAgent: Safari is looked for before Chrome.
GetBrowserSafariFirst(userAgent) ==
  IF Includes(userAgent, "Firefox") THEN "Firefox"
  ELSE IF Includes(userAgent, "Safari") THEN "Safari"
  ELSE IF Includes(userAgent, "Chrome") THEN "Chrome"
  ELSE IF Includes(userAgent, "Edge") THEN "Edge"
  ELSE "Other"

\* UrlEntry.getBrowserFromUserAgent
GetBrowserFromUserAgent(userAgent) ==
  IF Includes(userAgent, "Firefox") THEN "Firefox"
  ELSE IF Includes(userAgent, "Chrome") THEN "Chrome"
  ELSE IF Includes(userAgent, "Safari") THEN "Safari"
  ELSE IF Includes(userAgent, "Edge") THEN "Edge"
  ELSE "Other"

\* A faulty UpdateStats: accessCount follows the counter of the referrer.
UpdateStatsPerReferrer(e, referrer, userAgent, t) ==
  LET browser == GetBrowserFromUserAgent(userAgent)
  IN [ e EXCEPT
         !.accessCount = MapGetOr0(e.referrers, referrer) + 1,
         !.lastAccessed = Num(t),
         !.referrers = MapPut(e.referrers, referrer, MapGetOr0(e.referrers, referrer) + 1),
         !.browserStats = MapPut(e.browserStats, browser, MapGetOr0(e.browserStats, browser) + 1) ]

\* UrlEntry.updateStats at time t.
UpdateStats(e, referrer, userAgent, t) ==
  LET browser == GetBrowserFromUserAgent(userAgent)
  IN [ e EXCEPT
         !.accessCount = e.accessCount + 1,
         !.lastAccessed = Num(t),
         !.referrers = MapPut(e.referrers, referrer, MapGetOr0(e.referrers, referrer) + 1),
         !.browserStats = MapPut(e.browserStats, browser, MapGetOr0(e.browserStats, browser) + 1) ]

\* A faulty GetStats: the entry is reported expired from its deadline on.
GetStatsFromDeadline(e, t) ==
  [ accessCount |-> e.accessCount,
    lastAccessed |-> e.lastAccessed,
    createdAt |-> e.createdAt,
    ttl |-> e.ttl,
    isExpired |-> IsExpired(e, t + 1),
    referrers |-> e.referrers,
    browserStats |-> e.browserStats,
    qrCode |-> e.qrCode ]

\* UrlEntry.getStats at time t.
GetStats(e, t) ==
  [ accessCount |-> e.accessCount,
    lastAccessed |-> e.lastAccessed,
    createdAt |-> e.createdAt,
    ttl |-> e.ttl,
    isExpired |-> IsExpired(e, t),
    referrers |-> e.referrers,
    browserStats |-> e.browserStats,
    qrCode |-> e.qrCode ]

\* JSON.stringify of a number-or-null field: NaN is written as null.
JsonNumber(x) == IF x.t = "nan" THEN NullV ELSE x

\* UrlEntry.toJSON followed by JSON.stringify: the object's own fields, the
\* two Maps as plain objects.
ToJSON(e) == [e EXCEPT !.ttl = JsonNumber(e.ttl)]

\* A faulty FromJSON: the counters are not restored.
FromJSONFresh(json) ==
  [ NewUrlEntry(json.longUrl, json.shortId, json.createdAt, json.ttl, NoSlug)
      EXCEPT !.referrers = json.referrers,
             !.browserStats = json.browserStats,
             !.qrCode = json.qrCode ]

\* A faulty FromJSON: the browser statistics are not restored.
FromJSONWithoutBrowserStats(json) ==
  [ NewUrlEntry(json.longUrl, json.shortId, json.createdAt, json.ttl, NoSlug)
      EXCEPT !.accessCount = json.accessCount,
             !.lastAccessed = json.lastAccessed,
             !.referrers = json.referrers,
             !.qrCode = json.qrCode ]

\* UrlEntry.fromJSON: toJSON writes no customSlug, so the constructor gets
\* undefined for it and keeps json.shortId.
FromJSON(json) ==
  [ NewUrlEntry(json.longUrl, json.shortId, json.createdAt, json.ttl, NoSlug)
      EXCEPT !.accessCount = json.accessCount,
             !.lastAccessed = json.lastAccessed,
             !.referrers = json.referrers,
             !.browserStats = json.browserStats,
             !.qrCode = json.qrCode ]

(***************************************************************************)
(* The Map urlDatabase: a sequence of [key, obj] in insertion order, obj   *)
(* being the index in heap of the UrlEntry object the key refers to.       *)
(***************************************************************************)
Keys(db) == {db[i].key : i \in 1..Len(db)}

\* A faulty MapHas: the lookup misses the entry inserted last.
MapHasButLast(db, k) == k \in {db[i].key : i \in 1..(Len(db) - 1)}

MapHas(db, k) == k \in Keys(db)

\* The place of key k in db (k must be a key of db).
MapIndex(db, k) == CHOOSE i \in 1..Len(db) : db[i].key = k

\* Map.get: the object stored under k (k must be a key of db).
MapGet(db, k) == db[MapIndex(db, k)].obj

\* A faulty MapSet: a key that is not yet in the Map is not stored.
MapSetExistingOnly(db, k, o) ==
  [i \in 1..Len(db) |-> IF db[i].key = k THEN [key |-> k, obj |-> o] ELSE db[i]]

\* Map.set: an existing key keeps its place and gets the new value.
MapSet(db, k, o) ==
  IF MapHas(db, k)
    THEN [i \in 1..Len(db) |-> IF db[i].key = k THEN [key |-> k, obj |-> o] ELSE db[i]]
    ELSE Append(db, [key |-> k, obj |-> o])

\* A faulty MapDelete: the call is given the entry, not its key, and
\* deletes nothing.
MapDeleteNothing(db, k) == db

\* Map.delete
RECURSIVE MapDelete(_, _)
MapDelete(db, k) ==
  IF db = <<>> THEN <<>>
  ELSE IF Head(db).key = k THEN Tail(db)
  ELSE <<Head(db)>> \o MapDelete(Tail(db), k)

\* The entry stored under k.
EntryAt(db, hp, k) == hp[MapGet(db, k)]

\* A faulty FindExisting: the scan does not test isExpired.
FindExistingAnyAge(db, hp, longUrl, t) ==
  LET hits == {i \in 1..Len(db) : hp[db[i].obj].longUrl = longUrl}
  IN IF hits = {} THEN 0 ELSE CHOOSE i \in hits : \A j \in hits : i <= j

\* The dedup scan of POST /api/shorten: the index of the first entry, in
\* insertion order, with this longUrl that is not expired; 0 when none.
FindExisting(db, hp, longUrl, t) ==
  LET hits == {i \in 1..Len(db) :
                 hp[db[i].obj].longUrl = longUrl /\ ~IsExpired(hp[db[i].obj], t)}
  IN IF hits = {} THEN 0 ELSE CHOOSE i \in hits : \A j \in hits : i <= j

\* A faulty CleanupLoop: a deletion makes the iteration skip the next entry.
RECURSIVE CleanupSkipsAfterDelete(_, _, _)
CleanupSkipsAfterDelete(db, hp, t) ==
  IF db = <<>> THEN <<>>
  ELSE IF IsExpired(hp[Head(db).obj], t)
    THEN (IF Tail(db) = <<>> THEN <<>>
          ELSE <<Head(Tail(db))>> \o CleanupSkipsAfterDelete(Tail(Tail(db)), hp, t))
  ELSE <<Head(db)>> \o CleanupSkipsAfterDelete(Tail(db), hp, t)

\* The loop of cleanupExpiredUrls: every expired entry is deleted.
RECURSIVE CleanupLoop(_, _, _)
CleanupLoop(db, hp, t) ==
  IF db = <<>> THEN <<>>
  ELSE IF IsExpired(hp[Head(db).obj], t) THEN CleanupLoop(Tail(db), hp, t)
  ELSE <<Head(db)>> \o CleanupLoop(Tail(db), hp, t)

\* The array index a property key stands for, -1 when it is none: a decimal
\* numeral without leading zero (the ids of the model stay below 2^32 - 1).
ArrayIndex(k) ==
  LET cs == CharsOf(k)
  IN IF /\ cs # <<>>
        /\ \A i \in 1..Len(cs) : cs[i] \in Digits
        /\ (Len(cs) = 1 \/ cs[1] # "0")
       THEN DigitsPrefix(cs, 0)
       ELSE -1

\* The entries of db whose keys are array indices, in ascending order.
RECURSIVE IndexKeysAscending(_)
IndexKeysAscending(db) ==
  LET idx == {i \in 1..Len(db) : ArrayIndex(db[i].key) >= 0}
  IN IF idx = {} THEN <<>>
     ELSE LET m == CHOOSE i \in idx :
                     \A j \in idx : ArrayIndex(db[i].key) <= ArrayIndex(db[j].key)
          IN <<db[m]>> \o IndexKeysAscending(
                             SelectSeq(db, LAMBDA x : x.key # db[m].key))

\* Object.fromEntries(...) as JSON.stringify and Object.entries enumerate it:
\* the keys that are array indices first, ascending, then the other keys in
\* the order of insertion.
ObjectOrder(db) ==
  IndexKeysAscending(db) \o SelectSeq(db, LAMBDA x : ArrayIndex(x.key) < 0)

\* A faulty Serialize: the entry inserted last is left out.
SerializeButLast(db, hp) ==
  [i \in 1..(Len(db) - 1) |-> [key |-> db[i].key, value |-> ToJSON(hp[db[i].obj])]]

\* The document saveData serializes: every key with its entry's JSON.
Serialize(db, hp) ==
  LET ord == ObjectOrder(db)
  IN [i \in 1..Len(ord) |-> [key |-> ord[i].key, value |-> ToJSON(hp[ord[i].obj])]]

\* The persisted document: ok is FALSE when the file holds a partial write.
Document(doc) == [ok |-> TRUE, doc |-> doc]
PartialDocument == [ok |-> FALSE, doc |-> <<>>]

\* initializeStorage: the Map built from Object.entries of the parsed document,
\* and the UrlEntry objects fromJSON constructs, in the document's order.
LoadedHeap(doc) == [i \in 1..Len(doc) |-> FromJSON(doc[i].value)]
LoadedMap(doc) == [i \in 1..Len(doc) |-> [key |-> doc[i].key, obj |-> i]]

\* Outcomes of fs.writeFile: it succeeds, it fails before the file is opened
\* for writing, or it fails after the file was truncated.
WriteOutcomes == {"ok", "failKeep", "failPartial"}

\* A faulty WriteFile: an empty table is not written.
WriteFileSkipsEmpty(file, snap, outcome) ==
  IF outcome = "ok" THEN (IF snap = <<>> THEN file ELSE Document(snap))
  ELSE IF outcome = "failKeep" THEN file
  ELSE PartialDocument

\* A faulty WriteFile: the file is opened for appending.
WriteFileAppends(file, snap, outcome) ==
  IF outcome = "ok" THEN Document(file.doc \o snap)
  ELSE IF outcome = "failKeep" THEN file
  ELSE PartialDocument

\* The file after fs.writeFile(URL_DATA_FILE, snap) ended with outcome.
WriteFile(file, snap, outcome) ==
  IF outcome = "ok" THEN Document(snap)
  ELSE IF outcome = "failKeep" THEN file
  ELSE PartialDocument

(***************************************************************************)
(* State.                                                                  *)
(***************************************************************************)
VARIABLES
  urlDatabase,  \* the Map shortId -> UrlEntry, as a sequence of [key, obj]
  heap,         \* the UrlEntry objects ever constructed, by object index
  disk,         \* the content of data/urls.json
  now,          \* Date.now()
  proc,         \* per request slot: the suspended handler and its locals
  sweeper,      \* the setInterval cleanup job
  nReq,         \* number of requests accepted so far
  event,        \* the response being sent, if any
  redirected    \* history: per object, the redirects answered and their latest time

vars == <<urlDatabase, heap, disk, now, proc, sweeper, nReq, event, redirected>>

\* What a handler and its response keep of the request.
NoReq == [op |-> "none", longUrl |-> "", slug |-> NoSlug, key |-> ""]

ShortenReq(longUrl, customSlug) ==
  [NoReq EXCEPT !.op = "shorten", !.longUrl = longUrl, !.slug = customSlug]

RedirectReq(shortId) == [NoReq EXCEPT !.op = "redirect", !.key = shortId]

StatsReq(shortId) == [NoReq EXCEPT !.op = "stats", !.key = shortId]

HealthReq == [NoReq EXCEPT !.op = "health"]

NoHealth == [totalUrls |-> 0, activeUrls |-> 0, expiredUrls |-> 0]

Idle ==
  [ pc |-> "idle", req |-> NoReq, shortId |-> "", obj |-> 0,
    snap |-> <<>>, at |-> 0, referrer |-> NoHeader, userAgent |-> <<>> ]

NoEvent ==
  [ kind |-> "none", p |-> "", req |-> NoReq, responded |-> FALSE,
    status |-> 0, msg |-> "", shortId |-> "", location |-> "",
    hasStats |-> FALSE, stats |-> <<>>, health |-> NoHealth,
    created |-> FALSE, write |-> "none", obj |-> 0, at |-> 0 ]

\* A response without a body of statistics.
Reply(kind, p, req, status, msg, t) ==
  [NoEvent EXCEPT !.kind = kind, !.p = p, !.req = req,
                  !.responded = TRUE, !.status = status, !.msg = msg,
                  !.at = t]

\* res.json({shortId, longUrl, ...urlEntry.getStats()})
ReplyStats(kind, p, req, shortId, longUrl, e, o, t) ==
  [Reply(kind, p, req, 200, "", t) EXCEPT
     !.shortId = shortId, !.location = longUrl, !.hasStats = TRUE,
     !.stats = GetStats(e, t), !.obj = o]

Init ==
  /\ urlDatabase = <<>>
  /\ heap = <<>>
  /\ disk = Document(<<>>)
  /\ now = 0
  /\ proc = [p \in Procs |-> Idle]
  /\ sweeper = [pc |-> "idle", snap |-> <<>>]
  /\ nReq = 0
  /\ event = NoEvent
  /\ redirected = <<>>

\* res.json, res.send and res.redirect run to completion: no other step is
\* taken while a response is being sent.
Quiet == event = NoEvent

\* A new request takes the first free slot (the slots are interchangeable).
FreeSlot(p) ==
  /\ Quiet
  /\ proc[p].pc = "idle"
  /\ p = "p2" => proc["p1"].pc # "idle"

(***************************************************************************)
(* POST /api/shorten.                                                      *)
(***************************************************************************)
\* From the request to its first await (generateQRCode), or to an early return.
ShortenStart(p, longUrl, ttl, customSlug, gen) ==
  LET req == ShortenReq(longUrl, customSlug)
      found == FindExisting(urlDatabase, heap, longUrl, now)
      shortId == IF customSlug # NoSlug THEN customSlug ELSE gen
      urlEntry == NewUrlEntry(longUrl, shortId, now, ParseTtl(ttl), customSlug)
  IN
  /\ FreeSlot(p)
  /\ IF ~IsValidUrl(longUrl)
       THEN /\ event' = Reply("done", p, req, 400, "Invalid URL format", now)
            /\ UNCHANGED <<urlDatabase, heap, proc, nReq, redirected>>
     ELSE IF customSlug # NoSlug /\ ~IsValidCustomSlug(customSlug)
       THEN /\ event' = Reply("done", p, req, 400, "Invalid custom slug format", now)
            /\ UNCHANGED <<urlDatabase, heap, proc, nReq, redirected>>
     ELSE IF customSlug # NoSlug /\ MapHas(urlDatabase, customSlug)
       THEN /\ event' = Reply("done", p, req, 409, "Custom slug already in use", now)
            /\ UNCHANGED <<urlDatabase, heap, proc, nReq, redirected>>
     ELSE IF found # 0
       THEN /\ event' = ReplyStats("done", p, req, urlDatabase[found].key, longUrl,
                                   heap[urlDatabase[found].obj], urlDatabase[found].obj,
                                   now)
            /\ UNCHANGED <<urlDatabase, heap, proc, nReq, redirected>>
     ELSE /\ nReq' = nReq + 1
          /\ heap' = Append(heap, urlEntry)
          /\ redirected' = Append(redirected, [done |-> 0, last |-> NullV])
          /\ proc' = [proc EXCEPT ![p] =
                        [Idle EXCEPT !.pc = "qr", !.req = req,
                                     !.shortId = shortId, !.obj = Len(heap) + 1,
                                     !.at = now]]
          /\ event' = NoEvent
          /\ UNCHANGED urlDatabase
  /\ UNCHANGED <<disk, now, sweeper>>

\* generateQRCode has returned: urlDatabase.set, then saveData up to its await.
ShortenInsert(p, encoderOk) ==
  LET pr == proc[p]
      hp == [heap EXCEPT ![pr.obj].qrCode = GenerateQRCode(pr.shortId, encoderOk)]
      db == MapSet(urlDatabase, pr.shortId, pr.obj)
  IN
  /\ Quiet
  /\ pr.pc = "qr"
  /\ heap' = hp
  /\ urlDatabase' = db
  /\ proc' = [proc EXCEPT ![p].pc = "saveShorten", ![p].snap = Serialize(db, hp)]
  /\ event' = NoEvent
  /\ UNCHANGED <<disk, now, sweeper, nReq, redirected>>

\* saveData has returned (the write done or failed and logged): res.json.
ShortenRespond(p, outcome) ==
  LET pr == proc[p] IN
  /\ Quiet
  /\ pr.pc = "saveShorten"
  /\ disk' = WriteFile(disk, pr.snap, outcome)
  /\ event' = [ReplyStats("done", p, pr.req, pr.shortId, pr.req.longUrl,
                          heap[pr.obj], pr.obj, now)
                 EXCEPT !.created = TRUE, !.write = outcome]
  /\ proc' = [proc EXCEPT ![p] = Idle]
  /\ UNCHANGED <<urlDatabase, heap, now, sweeper, nReq, redirected>>

(***************************************************************************)
(* GET /:shortId.                                                          *)
(***************************************************************************)
\* req.get('Referrer') || 'Direct'
ReferrerLabel(referrer) == IF referrer = NoHeader THEN "Direct" ELSE referrer

\* req.get('User-Agent') || 'Unknown'
UserAgentOf(userAgent) == IF userAgent = <<>> THEN NameChars("Unknown") ELSE userAgent

\* From the request to the await of saveData, or to the 404 of a missing key.
RedirectStart(p, shortId, referrer, userAgent) ==
  LET req == RedirectReq(shortId)
      o == MapGet(urlDatabase, shortId)
  IN
  /\ FreeSlot(p)
  /\ IF ~MapHas(urlDatabase, shortId)
       THEN /\ event' = Reply("done", p, req, 404, "URL not found", now)
            /\ UNCHANGED <<urlDatabase, heap, proc, nReq>>
     ELSE IF IsExpired(heap[o], now)
       THEN /\ nReq' = nReq + 1
            /\ urlDatabase' = MapDelete(urlDatabase, shortId)
            /\ proc' = [proc EXCEPT ![p] =
                          [Idle EXCEPT !.pc = "saveExpired", !.req = req,
                                       !.obj = o, !.at = now,
                                       !.snap = Serialize(urlDatabase', heap)]]
            /\ event' = NoEvent
            /\ UNCHANGED heap
     ELSE /\ nReq' = nReq + 1
          /\ heap' = [heap EXCEPT ![o] =
                        UpdateStats(@, ReferrerLabel(referrer), UserAgentOf(userAgent), now)]
          /\ proc' = [proc EXCEPT ![p] =
                        [Idle EXCEPT !.pc = "saveRedirect", !.req = req,
                                     !.obj = o, !.at = now,
                                     !.referrer = referrer,
                                     !.userAgent = userAgent,
                                     !.snap = Serialize(urlDatabase, heap')]]
          /\ event' = NoEvent
          /\ UNCHANGED <<urlDatabase>>
  /\ UNCHANGED <<disk, now, sweeper, redirected>>

\* saveData has returned after the deletion: 404 'URL has expired'.
ExpiredRespond(p, outcome) ==
  LET pr == proc[p] IN
  /\ Quiet
  /\ pr.pc = "saveExpired"
  /\ disk' = WriteFile(disk, pr.snap, outcome)
  /\ event' = [Reply("done", p, pr.req, 404, "URL has expired", now)
                 EXCEPT !.write = outcome, !.obj = pr.obj]
  /\ proc' = [proc EXCEPT ![p] = Idle]
  /\ UNCHANGED <<urlDatabase, heap, now, sweeper, nReq, redirected>>

\* The later of two number-or-null times.
LaterOf(a, b) == IF a.t = "null" \/ (b.t = "num" /\ b.v > a.v) THEN b ELSE a

\* saveData has returned after updateStats: res.redirect(urlEntry.longUrl).
RedirectRespond(p, outcome) ==
  LET pr == proc[p] IN
  /\ Quiet
  /\ pr.pc = "saveRedirect"
  /\ disk' = WriteFile(disk, pr.snap, outcome)
  /\ event' = [Reply("done", p, pr.req, 302, "", now)
                 EXCEPT !.location = heap[pr.obj].longUrl, !.write = outcome,
                        !.obj = pr.obj]
  /\ redirected' = [redirected EXCEPT ![pr.obj] =
                      [done |-> @.done + 1, last |-> LaterOf(@.last, Num(pr.at))]]
  /\ proc' = [proc EXCEPT ![p] = Idle]
  /\ UNCHANGED <<urlDatabase, heap, now, sweeper, nReq>>

(***************************************************************************)
(* GET /api/stats/:shortId and GET /api/health: no await.                  *)
(***************************************************************************)
Stats(shortId) ==
  LET req == StatsReq(shortId)
      o == MapGet(urlDatabase, shortId)
  IN
  /\ Quiet
  /\ event' =
       IF ~MapHas(urlDatabase, shortId)
         THEN Reply("done", "", req, 404, "URL not found", now)
         ELSE ReplyStats("done", "", req, heap[o].shortId, heap[o].longUrl,
                         heap[o], o, now)
  /\ UNCHANGED <<urlDatabase, heap, disk, now, proc, sweeper, nReq, redirected>>

\* The clock may move on between two reads of Date.now() in one handler.
ClockSteps == {0, 1}

\* The two filters of the handler call isExpired, and so read the clock, one
\* after the other: the first at now, the second dt later.
Health(dt) ==
  LET active == {i \in 1..Len(urlDatabase) : ~IsExpired(heap[urlDatabase[i].obj], now)}
      expired == {i \in 1..Len(urlDatabase) : IsExpired(heap[urlDatabase[i].obj], now + dt)}
  IN
  /\ Quiet
  /\ now' = now + dt
  /\ event' = [Reply("done", "", HealthReq, 200, "healthy", now) EXCEPT
                 !.health = [ totalUrls |-> Len(urlDatabase),
                              activeUrls |-> Cardinality(active),
                              expiredUrls |-> Cardinality(expired) ]]
  /\ UNCHANGED <<urlDatabase, heap, disk, proc, sweeper, nReq, redirected>>

(***************************************************************************)
(* The cleanup job.  A run starts only after the save of the previous run  *)
(* has returned.                                                           *)
(***************************************************************************)
\* A faulty CleanupExpiredUrls: saveData is called after every run.
CleanupAlwaysSaves ==
  LET db == CleanupLoop(urlDatabase, heap, now)
  IN
  /\ Quiet
  /\ sweeper.pc = "idle"
  /\ urlDatabase' = db
  /\ sweeper' = [pc |-> "save", snap |-> Serialize(db, heap)]
  /\ event' = NoEvent
  /\ UNCHANGED <<heap, disk, now, proc, nReq, redirected>>

CleanupExpiredUrls ==
  LET db == CleanupLoop(urlDatabase, heap, now)
      hasChanges == db # urlDatabase
  IN
  /\ Quiet
  /\ sweeper.pc = "idle"
  /\ urlDatabase' = db
  /\ sweeper' = [ pc |-> IF hasChanges THEN "save" ELSE "idle",
                  snap |-> IF hasChanges THEN Serialize(db, heap) ELSE <<>> ]
  /\ event' = NoEvent
  /\ UNCHANGED <<heap, disk, now, proc, nReq, redirected>>

\* saveData of the cleanup job has returned.
CleanupSaved(outcome) ==
  /\ Quiet
  /\ sweeper.pc = "save"
  /\ disk' = WriteFile(disk, sweeper.snap, outcome)
  /\ sweeper' = [sweeper EXCEPT !.pc = "idle", !.snap = <<>>]
  /\ event' = [NoEvent EXCEPT !.kind = "cleanup", !.write = outcome, !.at = now]
  /\ UNCHANGED <<urlDatabase, heap, now, proc, nReq, redirected>>

\* Time passes.
Tick ==
  /\ Quiet
  /\ now' = now + 1
  /\ event' = NoEvent
  /\ UNCHANGED <<urlDatabase, heap, disk, proc, sweeper, nReq, redirected>>

\* The response has been sent.
Deliver ==
  /\ event # NoEvent
  /\ event' = NoEvent
  /\ UNCHANGED <<urlDatabase, heap, disk, now, proc, sweeper, nReq, redirected>>

\* The server is stopped with nothing in flight and started again:
\* initializeStorage replaces the table by what the document holds.  A
\* document that does not parse ends the process (process.exit(1)).
InitializeStorage ==
  /\ Quiet
  /\ \A p \in Procs : proc[p].pc = "idle"
  /\ sweeper.pc = "idle"
  /\ disk.ok
  /\ heap' = LoadedHeap(disk.doc)
  /\ urlDatabase' = LoadedMap(disk.doc)
  /\ redirected' = [i \in 1..Len(disk.doc) |->
                      [done |-> heap'[i].accessCount, last |-> heap'[i].lastAccessed]]
  /\ event' = [NoEvent EXCEPT !.kind = "loaded", !.at = now]
  /\ UNCHANGED <<disk, now, proc, sweeper, nReq>>

\* The budget of a specification: the handlers that reached an await, the
\* UrlEntry objects constructed and the clock stay within I's bounds.
Within(I) ==
  /\ nReq <= I.maxReqs
  /\ Len(heap) <= I.maxObjs
  /\ now <= I.maxTime

\* The steps of the server when the requests, the random ids and the outcomes
\* of the QR encoder and of the file writes are drawn from the sets of I, the
\* steps that start a handler or advance the clock staying within I's budget.
NextOf(I) ==
  \/ \E p \in Procs, longUrl \in I.urls, ttl \in I.ttls,
        customSlug \in I.slugs, gen \in I.gens :
       ShortenStart(p, longUrl, ttl, customSlug, gen) /\ Within(I)'
  \/ \E p \in Procs, encoderOk \in I.encoders : ShortenInsert(p, encoderOk)
  \/ \E p \in Procs, outcome \in I.outcomes : ShortenRespond(p, outcome)
  \/ \E p \in Procs, shortId \in I.keys, referrer \in I.referrers,
        userAgent \in I.userAgents :
       RedirectStart(p, shortId, referrer, userAgent) /\ Within(I)'
  \/ \E p \in Procs, outcome \in I.outcomes : ExpiredRespond(p, outcome)
  \/ \E p \in Procs, outcome \in I.outcomes : RedirectRespond(p, outcome)
  \/ \E shortId \in I.keys : Stats(shortId)
  \/ \E dt \in ClockSteps : Health(dt) /\ Within(I)'
  \/ CleanupExpiredUrls
  \/ \E outcome \in I.outcomes : CleanupSaved(outcome)
  \/ Tick /\ Within(I)'
  \/ Deliver


\* The registry under every request of the model, the encoder and the file
\* writes succeeding.
RegistryInputs ==
  [ urls |-> UrlInputs, ttls |-> {Undef, BodyNum(1)}, slugs |-> SlugInputs,
    gens |-> GenIds, keys |-> KeyInputs, referrers |-> {NoHeader},
    userAgents |-> {<<>>}, encoders |-> {TRUE}, outcomes |-> {"ok"},
    maxReqs |-> MaxReqs, maxObjs |-> MaxObjs, maxTime |-> MaxTime ]

Next == NextOf(RegistryInputs)

Spec == Init /\ [][Next]_vars

\* Redirects with every header of the model to one custom slug that two
\* shorten requests compete for.
AccessInputs ==
  [ urls |-> {UrlA, UrlB}, ttls |-> {Undef, BodyStr(<<"-", "1">>)}, slugs |-> {"promo"},
    gens |-> {"0000000a"}, keys |-> {"promo"}, referrers |-> ReferrerInputs,
    userAgents |-> UserAgentInputs, encoders |-> {TRUE}, outcomes |-> {"ok"},
    maxReqs |-> AccessReqs, maxObjs |-> AccessObjs, maxTime |-> AccessTime ]

NextAccess == NextOf(AccessInputs)

SpecAccess == Init /\ [][NextAccess]_vars

\* One generated id, the encoder and every file write failing or not.
FaultInputs ==
  [ urls |-> {UrlA}, ttls |-> {Undef, BodyStr(<<"-", "1">>)}, slugs |-> {NoSlug},
    gens |-> {"0000000a"}, keys |-> {"0000000a"}, referrers |-> {NoHeader},
    userAgents |-> {<<>>}, encoders |-> BOOLEAN, outcomes |-> WriteOutcomes,
    maxReqs |-> FaultReqs, maxObjs |-> FaultObjs, maxTime |-> FaultTime ]

NextFaults == NextOf(FaultInputs)

SpecFaults == Init /\ [][NextFaults]_vars

\* Restarts: ids that are and are not array indices, a ttl that parseInt
\* turns into NaN and one that is in the past, a failing QR encoder.
RestartInputs ==
  [ urls |-> {UrlA, UrlB}, ttls |-> {Undef, BodyStr(<<"x">>), BodyStr(<<"-", "1">>)}, slugs |-> {NoSlug},
    gens |-> {"0000000a", "12345678"}, keys |-> {"0000000a"},
    referrers |-> {NoHeader}, userAgents |-> {<<>>}, encoders |-> BOOLEAN,
    outcomes |-> {"ok"},
    maxReqs |-> RestartReqs, maxObjs |-> RestartObjs, maxTime |-> RestartTime ]

NextRestart == NextOf(RestartInputs) \/ InitializeStorage

SpecRestart == Init /\ [][NextRestart]_vars

\* The cleanup job under fair scheduling: the clock keeps advancing (up to
\* the bound), the timer keeps firing, every write returns and every
\* response is sent.
SweepInputs ==
  [ urls |-> {UrlA}, ttls |-> {Undef, BodyNum(1)}, slugs |-> {NoSlug},
    gens |-> {"0000000a"}, keys |-> {"0000000a"}, referrers |-> {NoHeader},
    userAgents |-> {<<>>}, encoders |-> {TRUE}, outcomes |-> {"ok"},
    maxReqs |-> SweepReqs, maxObjs |-> SweepObjs, maxTime |-> SweepTime ]

NextSweep == NextOf(SweepInputs)

SpecSweep ==
  /\ Init
  /\ [][NextSweep]_vars
  /\ SF_vars(Tick /\ Within(SweepInputs)')
  /\ SF_vars(CleanupExpiredUrls)
  /\ SF_vars(\E outcome \in SweepInputs.outcomes : CleanupSaved(outcome))
  /\ WF_vars(Deliver)

\* The statistics of a redirect under every User-Agent of the model.
BrowserInputs ==
  [ urls |-> {UrlA}, ttls |-> {Undef, BodyStr(<<"-", "1">>)}, slugs |-> {NoSlug},
    gens |-> {"0000000a"}, keys |-> {"0000000a"}, referrers |-> ReferrerInputs,
    userAgents |-> BrowserAgents, encoders |-> {TRUE}, outcomes |-> {"ok"},
    maxReqs |-> BrowserReqs, maxObjs |-> BrowserObjs, maxTime |-> BrowserTime ]

NextBrowser == NextOf(BrowserInputs)

SpecBrowser == Init /\ [][NextBrowser]_vars

\* Redirects with and without headers, and restarts between them.
TallyInputs ==
  [ urls |-> {UrlA}, ttls |-> {Undef, BodyStr(<<"-", "1">>)}, slugs |-> {NoSlug},
    gens |-> {"0000000a"}, keys |-> {"0000000a"}, referrers |-> ReferrerInputs,
    userAgents |-> UserAgentInputs, encoders |-> {TRUE}, outcomes |-> {"ok"},
    maxReqs |-> TallyReqs, maxObjs |-> TallyObjs, maxTime |-> TallyTime ]

NextTally == NextOf(TallyInputs) \/ InitializeStorage

SpecTally == Init /\ [][NextTally]_vars

(***************************************************************************)
(* Reading a step: which handler it started and what it answered.          *)
(***************************************************************************)
\* The step answers a request (every response is sent from the quiet state).
Answers == event = NoEvent /\ event'.kind = "done"

\* The step is the first one of a POST /api/shorten handled in slot p: it
\* leaves the handler at the QR await, or it answers at once.
ShortenStarts(p) ==
  /\ proc[p].pc = "idle"
  /\ \/ proc'[p].pc = "qr"
     \/ Answers /\ event'.p = p /\ event'.req.op = "shorten"

\* The step is the first one of a GET /:shortId handled in slot p.
RedirectStarts(p) ==
  /\ proc[p].pc = "idle"
  /\ \/ proc'[p].pc \in {"saveExpired", "saveRedirect"}
     \/ Answers /\ event'.p = p /\ event'.req.op = "redirect"

\* The request of the handler slot p starts in the step.
StartedReq(p) == IF proc'[p].pc # "idle" THEN proc'[p].req ELSE event'.req

\* The objects that a suspended handler still refers to.
InFlight == {proc[q].obj : q \in {r \in Procs : proc[r].pc # "idle"}}

\* The shortIds k that a completed slug-less POST of longUrl returned at the
\* creation of the entry stored under k, that entry being live at time t.
ReturnedFor(longUrl, t) ==
  {k \in Keys(urlDatabase) \cap GenIds :
     /\ EntryAt(urlDatabase, heap, k).longUrl = longUrl
     /\ ~IsExpired(EntryAt(urlDatabase, heap, k), t)
     /\ MapGet(urlDatabase, k) \notin InFlight}

(***************************************************************************)
(* C1.  If POST /api/shorten of a valid longUrl U without customSlug       *)
(* returned shortId k, a later such POST of U, handled after the first     *)
(* completed and while the entry under k is in the registry and not        *)
(* expired, returns k and adds no entry.  Refuted: two POSTs of U that     *)
(* overlap at the QR await both insert, and the scan returns the first.    *)
(***************************************************************************)
C1_SameShortIdAgain ==
  [][\A p \in Procs :
       (/\ ShortenStarts(p)
        /\ StartedReq(p).slug = NoSlug
        /\ IsValidUrl(StartedReq(p).longUrl))
       => \A k \in ReturnedFor(StartedReq(p).longUrl, now) :
            /\ Answers
            /\ event'.status = 200
            /\ event'.shortId = k
            /\ urlDatabase' = urlDatabase
            /\ heap' = heap]_vars

(***************************************************************************)
(* C2.  A POST /api/shorten with a valid longUrl and a well-formed         *)
(* customSlug that is a key of the registry is answered 409 and leaves the *)
(* registry unchanged, the entry under the key being expired or live, and  *)
(* the longUrl matching a live entry or not.                               *)
(***************************************************************************)
C2_SlugTaken ==
  [][\A p \in Procs :
       (/\ ShortenStarts(p)
        /\ IsValidUrl(StartedReq(p).longUrl)
        /\ StartedReq(p).slug # NoSlug
        /\ IsValidCustomSlug(StartedReq(p).slug)
        /\ StartedReq(p).slug \in Keys(urlDatabase))
       => /\ Answers
          /\ event'.status = 409
          /\ urlDatabase' = urlDatabase
          /\ heap' = heap]_vars

\* A 409 for a slug whose entry is expired, the longUrl matching a live entry.
C2_Witness ==
  /\ event.kind = "done"
  /\ event.req.op = "shorten"
  /\ event.status = 409
  /\ IsExpired(EntryAt(urlDatabase, heap, event.req.slug), now)
  /\ \E k \in Keys(urlDatabase) :
       /\ EntryAt(urlDatabase, heap, k).longUrl = event.req.longUrl
       /\ ~IsExpired(EntryAt(urlDatabase, heap, k), now)

(***************************************************************************)
(* C3.  Of two POST /api/shorten with the same well-formed customSlug and  *)
(* two different valid longUrls, the second is answered 409, whatever the  *)
(* registry held before and however the two interleave.  Stated for the    *)
(* pairs the state shows: the first is suspended, or its entry is stored   *)
(* under the slug.  Refuted: the second, handled while the first awaits    *)
(* the QR encoder, passes the check as well.                               *)
(***************************************************************************)
\* A first request with slug and a longUrl other than longUrl was handled.
FirstCallSeen(slug, longUrl) ==
  \/ \E q \in Procs :
       /\ proc[q].pc \in {"qr", "saveShorten"}
       /\ proc[q].req.slug = slug
       /\ proc[q].req.longUrl # longUrl
  \/ /\ slug \in Keys(urlDatabase)
     /\ EntryAt(urlDatabase, heap, slug).longUrl # longUrl

C5_ExpiredRedirectRemoves ==
  [][/\ \A p \in Procs :
          (/\ RedirectStarts(p)
           /\ StartedReq(p).key \in Keys(urlDatabase)
           /\ IsExpired(EntryAt(urlDatabase, heap, StartedReq(p).key), now))
          => /\ proc'[p].pc = "saveExpired"
             /\ StartedReq(p).key \notin Keys(urlDatabase')
             /\ heap' = heap
     /\ \A p \in Procs :
          (proc[p].pc = "saveExpired" /\ proc'[p].pc = "idle")
          => /\ event'.kind = "done"
             /\ event'.status = 404
             /\ event'.msg = "URL has expired"
             /\ heap' = heap
             /\ urlDatabase' = urlDatabase
     /\ (Answers /\ event'.req.op = "stats" /\ event'.req.key \notin Keys(urlDatabase))
          => event'.status = 404 /\ event'.msg = "URL not found"]_vars

\* The 404 'URL has expired' of a GET whose shortId is no longer in the registry.
C5_Witness ==
  /\ event.kind = "done"
  /\ event.req.op = "redirect"
  /\ event.status = 404
  /\ event.msg = "URL has expired"
  /\ event.req.key \notin Keys(urlDatabase)
  /\ heap[event.obj].accessCount = 0

(***************************************************************************)
(* C6.  One run of the cleanup job removes every expired entry and no      *)
(* other; every entry that is not expired keeps its key and all its fields.*)
(***************************************************************************)
C6_SweepRemovesExpiredOnly ==
  [][(sweeper.pc = "idle" /\ sweeper'.pc = "save")
       => /\ Keys(urlDatabase')
               = {k \in Keys(urlDatabase) :
                    ~IsExpired(EntryAt(urlDatabase, heap, k), now)}
          /\ \A k \in Keys(urlDatabase') :
               MapGet(urlDatabase', k) = MapGet(urlDatabase, k)
          /\ heap' = heap]_vars

\* A run that removed an expired entry and kept a live one.
C6_Witness ==
  /\ sweeper.pc = "save"
  /\ urlDatabase # <<>>
  /\ \A k \in Keys(urlDatabase) : ~IsExpired(EntryAt(urlDatabase, heap, k), now)

(***************************************************************************)
(* C7.  For every shortId k, isExpired of the entry under k is true        *)
(* exactly when the entry has a ttl and now > createdAt + ttl, and once    *)
(* true for k it is never false again while k stays in the registry.       *)
(* Refuted: an insert under a key that holds an expired entry replaces it  *)
(* by a live one without k leaving the registry.                           *)
(***************************************************************************)
C7_ExpiredStaysExpired ==
  [][\A k \in Keys(urlDatabase) \cap Keys(urlDatabase') :
       /\ IsExpired(EntryAt(urlDatabase, heap, k), now)
            = (/\ EntryAt(urlDatabase, heap, k).ttl.t = "num"
               /\ EntryAt(urlDatabase, heap, k).ttl.v # 0
               /\ now > EntryAt(urlDatabase, heap, k).createdAt
                          + EntryAt(urlDatabase, heap, k).ttl.v)
       /\ IsExpired(EntryAt(urlDatabase, heap, k), now)
            => IsExpired(EntryAt(urlDatabase', heap', k), now')]_vars

(***************************************************************************)
(* C9.  The longUrl bound to a shortId k never changes while k stays in    *)
(* the registry, under any interleaving of shorten requests.  Refuted: an  *)
(* insert under a key already in the registry replaces its entry.          *)
(***************************************************************************)
C9_LongUrlNeverChanges ==
  [][\A k \in Keys(urlDatabase) \cap Keys(urlDatabase') :
       EntryAt(urlDatabase', heap', k).longUrl
         = EntryAt(urlDatabase, heap, k).longUrl]_vars

(***************************************************************************)
(* C4.  After N GET /:shortId that each ended in a redirect, the           *)
(* accessCount of the entry is N and its lastAccessed is the time of the   *)
(* latest of them, also when the handlers interleave at their save awaits: *)
(* the count of an entry is the number of its redirects sent plus the      *)
(* number of its redirects still awaiting their save.                      *)
(***************************************************************************)
\* The handlers that updated the statistics of object o and await saveData.
PendingRedirects(o) ==
  {p \in Procs : proc[p].pc = "saveRedirect" /\ proc[p].obj = o}

\* The latest of the times at which the handlers of ps called updateStats.
RECURSIVE LatestAt(_, _)
LatestAt(ps, t) ==
  IF ps = {} THEN t
  ELSE LET p == CHOOSE q \in ps : TRUE
       IN LatestAt(ps \ {p}, LaterOf(t, Num(proc[p].at)))

C4_AccessCountIsRedirects ==
  \A o \in 1..Len(heap) :
    /\ heap[o].accessCount = redirected[o].done + Cardinality(PendingRedirects(o))
    /\ heap[o].lastAccessed = LatestAt(PendingRedirects(o), redirected[o].last)

\* Two redirects of one entry have been sent, the second at a later time.
C4_Witness ==
  /\ event.kind = "done"
  /\ event.req.op = "redirect"
  /\ event.status = 302
  /\ redirected[event.obj].done > 1
  /\ PendingRedirects(event.obj) = {}
  /\ heap[event.obj].accessCount = redirected[event.obj].done
  /\ heap[event.obj].lastAccessed = Num(now)
  /\ now > heap[event.obj].createdAt

(***************************************************************************)
(* C8.  The accessCount stored under a shortId k never decreases while k   *)
(* stays in the registry: it changes only by +1, in the step of a GET /:k  *)
(* that goes on to redirect.  Refuted: an insert under a key already in    *)
(* the registry replaces the entry by one whose accessCount is 0.          *)
(***************************************************************************)
C8_AccessCountNeverDecreases ==
  [][\A k \in Keys(urlDatabase) \cap Keys(urlDatabase') :
       \/ EntryAt(urlDatabase', heap', k).accessCount
            = EntryAt(urlDatabase, heap, k).accessCount
       \/ /\ EntryAt(urlDatabase', heap', k).accessCount
               = EntryAt(urlDatabase, heap, k).accessCount + 1
          /\ \E p \in Procs :
               /\ proc[p].pc = "idle"
               /\ proc'[p].pc = "saveRedirect"
               /\ proc'[p].req.key = k]_vars

(***************************************************************************)
(* C10.  When the write of a save fails, the request that started the save *)
(* still gets its normal response, the registry keeps the mutation, the    *)
(* persisted document keeps its previous content, and a save that succeeds *)
(* writes the full table.  Refuted: a write that fails after the file was  *)
(* opened leaves the document truncated.                                   *)
(***************************************************************************)
\* The handler positions that await saveData.
SavePcs == {"saveShorten", "saveRedirect", "saveExpired"}

\* The handler of slot p returns from its await of saveData in the step.
SaveReturns(p) == proc[p].pc \in SavePcs /\ proc'[p].pc = "idle"

\* The handler of slot p calls saveData in the step.
SaveStarts(p) == proc[p].pc \notin SavePcs /\ proc'[p].pc \in SavePcs

\* The response of the handler when nothing fails.
NormalResponse(p) ==
  /\ event'.kind = "done"
  /\ event'.responded
  /\ proc[p].pc = "saveShorten" => event'.status = 200 /\ event'.shortId = proc[p].shortId
  /\ proc[p].pc = "saveRedirect" => event'.status = 302
  /\ proc[p].pc = "saveExpired" => event'.status = 404 /\ event'.msg = "URL has expired"

C10_FailedSaveKeepsDocument ==
  [][\A p \in Procs :
       /\ SaveStarts(p) => proc'[p].snap = Serialize(urlDatabase', heap')
       /\ SaveReturns(p) =>
            /\ NormalResponse(p)
            /\ urlDatabase' = urlDatabase
            /\ heap' = heap
            /\ event'.write # "ok" => disk' = disk
            /\ event'.write = "ok" => disk' = Document(proc[p].snap)]_vars

(***************************************************************************)
(* C10 as amended.  When the write of a save fails, the request that       *)
(* started the save still gets its normal response and the registry keeps  *)
(* the mutation; the persisted document keeps its previous content or is   *)
(* left truncated; a save that succeeds writes the full table as it was    *)
(* when that save was started.                                             *)
(***************************************************************************)
C10_FailedSaveIsSwallowed ==
  [][\A p \in Procs :
       /\ SaveStarts(p) => proc'[p].snap = Serialize(urlDatabase', heap')
       /\ SaveReturns(p) =>
            /\ NormalResponse(p)
            /\ urlDatabase' = urlDatabase
            /\ heap' = heap
            /\ event'.write # "ok" => disk' \in {disk, PartialDocument}
            /\ event'.write = "ok" => disk' = Document(proc[p].snap)]_vars

\* A shorten answered 200 although its write failed: the entry is in the
\* registry and the document is truncated.
C10_Witness ==
  /\ event.kind = "done"
  /\ event.req.op = "shorten"
  /\ event.created
  /\ event.write = "failPartial"
  /\ event.status = 200
  /\ event.shortId \in Keys(urlDatabase)
  /\ disk = PartialDocument

(***************************************************************************)
(* C11.  Two logically concurrent mutating requests can leave, after both  *)
(* of their saves have completed without error and with no request in      *)
(* flight, a persisted document that lacks an update present in memory.    *)
(* The document changes only when a save returns, and a save that returns  *)
(* without error leaves in it the snapshot taken when that save was        *)
(* called, whatever the table holds by then: the write that lands last     *)
(* wins.                                                                   *)
(***************************************************************************)
\* No handler and no cleanup job is suspended.
NothingInFlight ==
  /\ \A p \in Procs : proc[p].pc = "idle"
  /\ sweeper.pc = "idle"

\* The cleanup job returns from its await of saveData in the step.
SweeperSaveReturns == sweeper.pc = "save" /\ sweeper'.pc = "idle"

C11_LastWriteWins ==
  [][/\ disk' # disk
          => \/ SweeperSaveReturns
             \/ \E p \in Procs : SaveReturns(p)
     /\ (SweeperSaveReturns /\ event'.write = "ok")
          => disk' = Document(sweeper.snap)
     /\ \A p \in Procs :
          (SaveReturns(p) /\ event'.write = "ok")
          => disk' = Document(proc[p].snap)]_vars

\* Nothing is in flight, two redirects of one entry were sent, no write
\* failed, and the document holds that entry with accessCount 1.
C11_Witness ==
  /\ NothingInFlight
  /\ disk.ok
  /\ disk.doc # Serialize(urlDatabase, heap)
  /\ \E i \in 1..Len(disk.doc) :
       /\ disk.doc[i].key \in Keys(urlDatabase)
       /\ redirected[MapGet(urlDatabase, disk.doc[i].key)].done = 2
       /\ EntryAt(urlDatabase, heap, disk.doc[i].key).accessCount = 2
       /\ disk.doc[i].value.accessCount = 1

(***************************************************************************)
(* C12.  Every step that changes the registry calls saveData before any    *)
(* await, the snapshot of that save already holds the change (the new      *)
(* entry of a shorten, the incremented counters of a redirect, the         *)
(* deletion of an expired redirect), and the handler sends its response    *)
(* only in the step in which that save returns, failed or not.             *)
(***************************************************************************)
\* The step changes the Map or an UrlEntry that existed before it.
RegistryChanges ==
  \/ urlDatabase' # urlDatabase
  \/ \E o \in 1..Len(heap) : heap'[o] # heap[o]

\* The keys of a snapshot.
SnapKeys(snap) == {snap[i].key : i \in 1..Len(snap)}

\* The value under key k of a snapshot that holds k.
SnapValue(snap, k) == snap[CHOOSE i \in 1..Len(snap) : snap[i].key = k].value

\* The response is one of a handler that changed the registry.
MutatingResponse(e) ==
  /\ e.kind = "done"
  /\ \/ e.req.op = "shorten" /\ e.created
     \/ e.req.op = "redirect" /\ e.status = 302
     \/ e.req.op = "redirect" /\ e.msg = "URL has expired"

C12_RespondsAfterOwnSave ==
  [][/\ RegistryChanges
          => \/ sweeper.pc = "idle" /\ sweeper'.pc = "save"
             \/ \E p \in Procs : SaveStarts(p)
     /\ (Answers /\ MutatingResponse(event'))
          => /\ SaveReturns(event'.p)
             /\ event'.write \in WriteOutcomes
     /\ \A p \in Procs :
          SaveStarts(p) =>
            /\ RegistryChanges
            /\ proc'[p].pc = "saveShorten"
                 => /\ proc'[p].shortId \in SnapKeys(proc'[p].snap)
                    /\ SnapValue(proc'[p].snap, proc'[p].shortId).longUrl
                         = proc'[p].req.longUrl
                    /\ SnapValue(proc'[p].snap, proc'[p].shortId).createdAt
                         = heap[proc[p].obj].createdAt
            /\ proc'[p].pc = "saveRedirect"
                 => /\ proc'[p].req.key \in SnapKeys(proc'[p].snap)
                    /\ SnapValue(proc'[p].snap, proc'[p].req.key).accessCount
                         = EntryAt(urlDatabase, heap, proc'[p].req.key).accessCount + 1
                    /\ SnapValue(proc'[p].snap, proc'[p].req.key).lastAccessed
                         = Num(now)
            /\ proc'[p].pc = "saveExpired"
                 => proc'[p].req.key \notin SnapKeys(proc'[p].snap)]_vars

\* A redirect is sent after its save failed; the entry in memory was counted.
C12_Witness ==
  /\ event.kind = "done"
  /\ event.req.op = "redirect"
  /\ event.status = 302
  /\ event.write = "failKeep"
  /\ heap[event.obj].accessCount = 1
  /\ proc[event.p].pc = "idle"

(***************************************************************************)
(* C13.  GET /api/stats/:shortId only reads: for a shortId in the registry *)
(* it answers 200 with the statistics of the entry, isExpired being true   *)
(* when the entry is expired and not yet removed; it deletes and modifies  *)
(* no entry and starts no save; for a shortId that is not in the registry  *)
(* it answers 404.                                                         *)
(***************************************************************************)
C13_StatsOnlyReads ==
  [][(Answers /\ event'.req.op = "stats") =>
       /\ UNCHANGED <<urlDatabase, heap, disk, proc, sweeper>>
       /\ IF event'.req.key \in Keys(urlDatabase)
            THEN LET e == EntryAt(urlDatabase, heap, event'.req.key) IN
                 /\ event'.status = 200
                 /\ event'.shortId = event'.req.key
                 /\ event'.location = e.longUrl
                 /\ event'.hasStats
                 /\ event'.stats.accessCount = e.accessCount
                 /\ event'.stats.lastAccessed = e.lastAccessed
                 /\ event'.stats.createdAt = e.createdAt
                 /\ event'.stats.ttl = e.ttl
                 /\ event'.stats.referrers = e.referrers
                 /\ event'.stats.browserStats = e.browserStats
                 /\ event'.stats.qrCode = e.qrCode
                 /\ event'.stats.isExpired
                      = (/\ e.ttl.t = "num"
                         /\ e.ttl.v # 0
                         /\ now > e.createdAt + e.ttl.v)
            ELSE /\ event'.status = 404
                 /\ event'.msg = "URL not found"
                 /\ ~event'.hasStats]_vars

\* The statistics of an expired entry that is still in the registry.
C13_Witness ==
  /\ event.kind = "done"
  /\ event.req.op = "stats"
  /\ event.status = 200
  /\ event.stats.isExpired
  /\ event.req.key \in Keys(urlDatabase)

(***************************************************************************)
(* C14.  GET /api/health reports totalUrls equal to the number of entries  *)
(* of the registry, activeUrls the number of entries that are not expired  *)
(* and expiredUrls the number of expired ones, so that activeUrls +        *)
(* expiredUrls = totalUrls in every response, and the request changes no   *)
(* state.  Refuted: the two counts are taken by two scans that read the    *)
(* clock one after the other, and an entry whose deadline passes between   *)
(* them is counted in both.                                                *)
(***************************************************************************)
C14_HealthCountsAddUp ==
  [][(Answers /\ event'.req.op = "health") =>
       /\ event'.status = 200
       /\ event'.health.totalUrls = Len(urlDatabase)
       /\ event'.health.activeUrls
            = Cardinality({i \in 1..Len(urlDatabase) :
                             ~IsExpired(heap[urlDatabase[i].obj], now)})
       /\ event'.health.activeUrls + event'.health.expiredUrls
            = event'.health.totalUrls
       /\ UNCHANGED <<urlDatabase, heap, disk, proc, sweeper>>]_vars

(***************************************************************************)
(* C15.  A POST /api/shorten whose longUrl is that of a live entry, and    *)
(* whose customSlug, if any, is well-formed and not a key of the registry, *)
(* is answered 200 with the shortId and the statistics of a live entry of  *)
(* that longUrl (the first in the order of insertion); no entry is added,  *)
(* the customSlug is not registered, no entry is modified and no save is   *)
(* started.                                                                *)
(***************************************************************************)
\* The keys of the entries with this longUrl that are not expired at time t.
LiveKeysOf(longUrl, t) ==
  {k \in Keys(urlDatabase) :
     /\ EntryAt(urlDatabase, heap, k).longUrl = longUrl
     /\ ~IsExpired(EntryAt(urlDatabase, heap, k), t)}

C15_ExistingEntryReturned ==
  [][\A p \in Procs :
       (/\ ShortenStarts(p)
        /\ IsValidUrl(StartedReq(p).longUrl)
        /\ \/ StartedReq(p).slug = NoSlug
           \/ /\ IsValidCustomSlug(StartedReq(p).slug)
              /\ StartedReq(p).slug \notin Keys(urlDatabase)
        /\ LiveKeysOf(StartedReq(p).longUrl, now) # {})
       => /\ Answers
          /\ event'.status = 200
          /\ ~event'.created
          /\ event'.shortId \in LiveKeysOf(StartedReq(p).longUrl, now)
          /\ \A k \in LiveKeysOf(StartedReq(p).longUrl, now) :
               MapIndex(urlDatabase, event'.shortId) <= MapIndex(urlDatabase, k)
          /\ event'.location = StartedReq(p).longUrl
          /\ event'.stats.accessCount
               = EntryAt(urlDatabase, heap, event'.shortId).accessCount
          /\ event'.stats.createdAt
               = EntryAt(urlDatabase, heap, event'.shortId).createdAt
          /\ UNCHANGED <<urlDatabase, heap, disk, proc, sweeper>>
          /\ StartedReq(p).slug \notin Keys(urlDatabase')]_vars

\* A request with a free customSlug answered with the shortId of the entry
\* that already holds its longUrl.
C15_Witness ==
  /\ event.kind = "done"
  /\ event.req.op = "shorten"
  /\ event.status = 200
  /\ ~event.created
  /\ event.req.slug # NoSlug
  /\ event.req.slug \notin Keys(urlDatabase)
  /\ event.shortId \in Keys(urlDatabase)
  /\ EntryAt(urlDatabase, heap, event.shortId).longUrl = event.req.longUrl

(***************************************************************************)
(* C16.  Save followed by load is a round trip: loading the document that  *)
(* a save writes of a reachable registry yields a registry with the same   *)
(* keys and, under each key, an entry with the same shortId (its key),     *)
(* longUrl, createdAt, ttl, accessCount, lastAccessed, qrCode, referrers   *)
(* and browserStats.  Refuted: a ttl that is NaN in memory is written as   *)
(* null and loaded as null.                                                *)
(***************************************************************************)
\* The entry under key k when the document doc is loaded.
Reloaded(doc, k) == FromJSON(SnapValue(doc, k))

\* Loading the document doc yields the keys of the registry and, but for
\* ttl, the fields of its entries.
SameButTtl(doc) ==
  /\ Keys(LoadedMap(doc)) = Keys(urlDatabase)
  /\ Len(LoadedMap(doc)) = Len(urlDatabase)
  /\ \A k \in Keys(urlDatabase) :
       LET e == EntryAt(urlDatabase, heap, k)
           r == EntryAt(LoadedMap(doc), LoadedHeap(doc), k)
       IN
       /\ r = Reloaded(doc, k)
       /\ r.shortId = k
       /\ e.shortId = k
       /\ r.longUrl = e.longUrl
       /\ r.createdAt = e.createdAt
       /\ r.accessCount = e.accessCount
       /\ r.lastAccessed = e.lastAccessed
       /\ r.qrCode = e.qrCode
       /\ r.referrers = e.referrers
       /\ r.browserStats = e.browserStats

C16_SaveLoadRoundTrip ==
  LET doc == Serialize(urlDatabase, heap) IN
  /\ SameButTtl(doc)
  /\ \A k \in Keys(urlDatabase) :
       Reloaded(doc, k).ttl = EntryAt(urlDatabase, heap, k).ttl

(***************************************************************************)
(* C16 as amended.  Save followed by load keeps the keys and every field   *)
(* of every entry, except that a ttl that is NaN in memory is loaded as    *)
(* null; the entry is never expired before and after.                      *)
(***************************************************************************)
C16_SaveLoadRoundTripButNaN ==
  LET doc == Serialize(urlDatabase, heap) IN
  /\ SameButTtl(doc)
  /\ \A k \in Keys(urlDatabase) :
       LET e == EntryAt(urlDatabase, heap, k) IN
       /\ Reloaded(doc, k).ttl = (IF e.ttl = NaNV THEN NullV ELSE e.ttl)
       /\ IsExpired(Reloaded(doc, k), now) = IsExpired(e, now)

\* The server has just loaded a document that holds a counted entry.
C16_Witness ==
  /\ event.kind = "loaded"
  /\ urlDatabase # <<>>
  /\ disk.doc = Serialize(urlDatabase, heap)
  /\ \E k \in Keys(urlDatabase) :
       /\ EntryAt(urlDatabase, heap, k).accessCount = 1
       /\ EntryAt(urlDatabase, heap, k).lastAccessed # NullV

(***************************************************************************)
(* C17.  Provided time advances and the cleanup job keeps firing, every    *)
(* entry with a ttl is eventually absent from the registry, and a run of   *)
(* the cleanup job starts a save exactly when it removed an entry.  An     *)
(* entry has a ttl when its ttl is a non-zero number; in the model time    *)
(* advances up to SweepTime, so the entries are those whose deadline the   *)
(* clock can pass.                                                         *)
(***************************************************************************)
\* The UrlEntry object o is a value of the Map.
InRegistry(o) == \E i \in 1..Len(urlDatabase) : urlDatabase[i].obj = o

\* The object o is in the registry with a ttl whose deadline the clock passes.
WillExpire(o) ==
  /\ o <= Len(heap)
  /\ InRegistry(o)
  /\ Truthy(heap[o].ttl)
  /\ heap[o].createdAt + heap[o].ttl.v < SweepTime

\* The step is a run of the cleanup job.
SweeperRuns ==
  /\ sweeper.pc = "idle"
  /\ proc' = proc
  /\ heap' = heap
  /\ now' = now
  /\ event' = NoEvent
  /\ disk' = disk

C17_EntriesWithTtlAreRemoved ==
  /\ \A o \in 1..SweepObjs : WillExpire(o) ~> ~InRegistry(o)
  /\ [][/\ (sweeper.pc = "idle" /\ sweeper'.pc = "save")
             => /\ Len(urlDatabase') < Len(urlDatabase)
                /\ sweeper'.snap = Serialize(urlDatabase', heap')
        /\ (SweeperRuns /\ urlDatabase' # urlDatabase) => sweeper'.pc = "save"
        /\ (SweeperRuns /\ urlDatabase' = urlDatabase) => sweeper'.pc = "idle"]_vars

\* An entry with a ttl has been removed by a run of the cleanup job, which
\* awaits its save.
C17_Witness ==
  /\ sweeper.pc = "save"
  /\ \A p \in Procs : proc[p].pc = "idle"
  /\ \E o \in 1..Len(heap) :
       /\ Truthy(heap[o].ttl)
       /\ ~InRegistry(o)
       /\ now > heap[o].createdAt + heap[o].ttl.v

(***************************************************************************)
(* C18.  A redirect increments the browser bucket that is the first of     *)
(* Firefox, Chrome, Safari, Edge, in that order, to occur in the           *)
(* User-Agent as a case-sensitive substring, and Other when none occurs or *)
(* the header is missing; it increments the referrer bucket of the         *)
(* Referrer header, and Direct when that header is missing.                *)
(***************************************************************************)
\* The names looked for, in their order of priority.
BrowserPriority == <<"Firefox", "Chrome", "Safari", "Edge">>

\* The name occurs in the User-Agent at some position.
Occurs(name, userAgent) ==
  \E i \in 1..Len(userAgent) :
    /\ i + Len(NameChars(name)) - 1 <= Len(userAgent)
    /\ \A j \in 1..Len(NameChars(name)) : userAgent[i + j - 1] = NameChars(name)[j]

\* The bucket the claim names for a User-Agent header.
ExpectedBrowser(userAgent) ==
  LET hits == {i \in 1..Len(BrowserPriority) : Occurs(BrowserPriority[i], userAgent)}
  IN IF userAgent = <<>> \/ hits = {} THEN "Other"
     ELSE BrowserPriority[CHOOSE i \in hits : \A j \in hits : i <= j]

\* The Map m with the count of label b incremented.
Incremented(m, b) ==
  [x \in DOMAIN m \cup {b} |->
     IF x = b THEN (IF b \in DOMAIN m THEN m[b] + 1 ELSE 1) ELSE m[x]]

C18_BrowserAndReferrerBuckets ==
  [][\A p \in Procs :
       (proc[p].pc = "idle" /\ proc'[p].pc = "saveRedirect") =>
         LET o == proc'[p].obj IN
         /\ heap'[o].browserStats
              = Incremented(heap[o].browserStats, ExpectedBrowser(proc'[p].userAgent))
         /\ heap'[o].referrers
              = Incremented(heap[o].referrers,
                            IF proc'[p].referrer = NoHeader
                              THEN "Direct" ELSE proc'[p].referrer)]_vars

\* A redirect of a request whose User-Agent names Chrome, Safari and Edge,
\* sent without Referrer: the entry counts Chrome and Direct.
C18_Witness ==
  \E p \in Procs :
    /\ proc[p].pc = "saveRedirect"
    /\ proc[p].userAgent = UaLegacyEdge
    /\ proc[p].referrer = NoHeader
    /\ DOMAIN heap[proc[p].obj].browserStats = {"Chrome"}
    /\ DOMAIN heap[proc[p].obj].referrers = {"Direct"}
    /\ heap[proc[p].obj].accessCount = 1

(***************************************************************************)
(* C19.  In every reachable state, also in those reached by interleaving   *)
(* POST /api/shorten requests across the await of the QR code between the  *)
(* scan for an existing entry and the insert, no two non-expired entries   *)
(* of the registry have the same longUrl.                                  *)
(***************************************************************************)
C19_NoTwoLiveEntriesPerLongUrl ==
  \A i, j \in 1..Len(urlDatabase) :
    LET a == heap[urlDatabase[i].obj]
        b == heap[urlDatabase[j].obj]
    IN (/\ i # j
        /\ ~IsExpired(a, now)
        /\ ~IsExpired(b, now)) => a.longUrl # b.longUrl

(***************************************************************************)
(* C20.  For every entry of the registry in every reachable state, also    *)
(* for the entries restored by a load, the counts in referrers add up to   *)
(* accessCount, the counts in browserStats add up to accessCount, and      *)
(* lastAccessed is null exactly when accessCount is 0.                     *)
(***************************************************************************)
\* The sum of the values of the Map m.
RECURSIVE SumOfCounts(_)
SumOfCounts(m) ==
  IF DOMAIN m = {} THEN 0
  ELSE LET k == CHOOSE x \in DOMAIN m : TRUE
       IN m[k] + SumOfCounts([x \in DOMAIN m \ {k} |-> m[x]])

C20_CountersAgree ==
  \A i \in 1..Len(urlDatabase) :
    LET e == heap[urlDatabase[i].obj] IN
    /\ SumOfCounts(e.referrers) = e.accessCount
    /\ SumOfCounts(e.browserStats) = e.accessCount
    /\ (e.lastAccessed = NullV) <=> (e.accessCount = 0)

\* The state after a load that restored an entry redirected to twice, from
\* two referrers and by two kinds of browser.
C20_Witness ==
  /\ event.kind = "loaded"
  /\ \E i \in 1..Len(urlDatabase) :
       LET e == heap[urlDatabase[i].obj] IN
       /\ e.accessCount = 2
       /\ Cardinality(DOMAIN e.referrers) = 2
       /\ Cardinality(DOMAIN e.browserStats) = 2
       /\ e.lastAccessed # NullV

====
